---- MODULE Spec2Model ----
(***************************************************************************)
(* Model of the shoe product discovery assistant:                          *)
(*   tools.py  - the search tool adapters (_parse_response, the           *)
(*               concurrent multi-shoe lookup AsyncShoeSearchTool._arun)   *)
(*   agent.py  - the tool-calling loop (ShoeDiscoveryAgent.run / .stream)  *)
(*   main.py   - the chat-UI session handler (handle_message)              *)
(*   cli.py    - the line-mode session (interactive_mode)                  *)
(*                                                                         *)
(* Text is a sequence of one-character strings, so that split and strip    *)
(* act on characters.  Relevance scores are kept in hundredths (0.5 is 50).*)
(***************************************************************************)
EXTENDS Integers, Sequences, FiniteSets, TLC

VARIABLES
    \* ---- AsyncShoeSearchTool._arun (tools.py) ----
    ar_pc,        \* "idle" | "gather" | "returned" | "raised"
    req_items,    \* the comma-separated items the caller joined into shoe_names
    shoe_names,   \* the input string of _arun
    names,        \* the local list `names` after lines 184-185
    results,      \* per-name outcome slots of asyncio.gather, by position
    overtaken,    \* TRUE once a search completed while an earlier one was pending
    ar_ret,       \* the ShoeSearchResult returned, or the ToolException raised
    \* ---- _parse_response (tools.py) ----
    pr_in,        \* the provider response handed to _parse_response
    pr_out,       \* the ShoeSpecs it returned
    \* ---- ShoeDiscoveryAgent.run / .stream (agent.py) ----
    ag_mode,      \* "none" | "run" | "stream": which entry point is active
    ag_pc,        \* "idle" | "invoke" | "tools" | "returned" | "raised"
    ag_input,     \* the user_input argument
    ag_history,   \* the chat_history argument (the caller's list)
    messages,     \* the working message list
    cur_response, \* response (run) / full_response (stream) of this iteration
    tc,           \* position of the next tool call of `response` to execute
    yielded,      \* the fragments stream has yielded so far
    ag_ret,       \* what the call returned or raised
    n_invoke,     \* model invocations made in this call
    n_dispatch,   \* _execute_tool calls made in this call
    llm_responses, \* the responses the model has delivered in this call
    \* ---- interactive_mode (cli.py) ----
    cli_pc,       \* "off" | "prompt" | "streaming" | "exited" | "crashed"
    cli_history,  \* the local list chat_history of interactive_mode
    cli_turns,    \* turns the session has completed
    \* ---- the chat-UI session (main.py) ----
    chat_pc,      \* "off" | "ready": whether on_chat_start has run
    chat_history, \* cl.user_session["chat_history"]
    chat_msg,     \* the UI message of the last handled turn
    turn_status,  \* "none" | "blank" | "ok" | "failed": how the last turn ended
    chat_full     \* every message the successful turns appended, in order

arunVars  == <<ar_pc, req_items, shoe_names, names, results, overtaken, ar_ret>>
parseVars == <<pr_in, pr_out>>
agentVars == <<ag_mode, ag_pc, ag_input, ag_history, messages, cur_response, tc,
               yielded, ag_ret, n_invoke, n_dispatch, llm_responses>>
cliVars   == <<cli_pc, cli_history, cli_turns>>
chatVars  == <<chat_pc, chat_history, chat_msg, turn_status, chat_full>>
vars == <<arunVars, parseVars, agentVars, cliVars, chatVars>>

\* an absent optional value (a missing "answer" key)
Absent == <<"<absent>">>

-----------------------------------------------------------------------------
(* Bounds of the model *)

\* longest list of comma-separated items handed to a multi-shoe lookup
MaxItems == 6
\* model invocations one call of run or stream may make
MaxInvoke == 2
\* tool-call requests one model response may carry
MaxCalls == 2
\* turns one line-mode session may complete
MaxCliTurns == 2
\* successful turns one chat-UI session may hold
MaxTurns == 11

-----------------------------------------------------------------------------
(* Program constants *)

\* AsyncShoeSearchTool.max_shoes
max_shoes == 5
\* r.get("score", 0) > 0.5, in hundredths
ScoreThreshold == 50
\* sources[:3]
MaxSources == 3
\* r.get("content", "")[:500]
MaxContent == 500
\* search_params["max_results"]
max_results == 5
\* main.py: if len(chat_history) > 20: chat_history = chat_history[-20:]
HistoryCap == 20

-----------------------------------------------------------------------------
(* Python string and list primitives *)

Whitespace == {" ", "\t", "\n"}

RECURSIVE LStrip(_)
LStrip(s) == IF s # <<>> /\ Head(s) \in Whitespace THEN LStrip(Tail(s)) ELSE s

RECURSIVE RStrip(_)
RStrip(s) ==
    IF s # <<>> /\ s[Len(s)] \in Whitespace
    THEN RStrip(SubSeq(s, 1, Len(s) - 1))
    ELSE s

\* str.strip()
Strip(s) == RStrip(LStrip(s))

\* str.split(sep) for a one-character separator: never returns an empty list
RECURSIVE Split(_, _)
Split(s, sep) ==
    IF \A i \in 1..Len(s) : s[i] # sep
    THEN <<s>>
    ELSE LET i == CHOOSE k \in 1..Len(s) :
                      s[k] = sep /\ \A j \in 1..(k - 1) : s[j] # sep
         IN  <<SubSeq(s, 1, i - 1)>> \o Split(SubSeq(s, i + 1, Len(s)), sep)

\* sep.join(items)
RECURSIVE Join(_, _)
Join(items, sep) ==
    IF items = <<>> THEN <<>>
    ELSE IF Len(items) = 1 THEN items[1]
    ELSE items[1] \o <<sep>> \o Join(Tail(items), sep)

\* seq[:n]
Take(s, n) == SubSeq(s, 1, IF Len(s) < n THEN Len(s) ELSE n)

\* seq[-n:]
LastN(s, n) == IF Len(s) <= n THEN s ELSE SubSeq(s, Len(s) - n + 1, Len(s))

Truthy(s) == s # <<>>

-----------------------------------------------------------------------------
(* tools.py: _parse_response *)

\* one ShoeSource per raw result with score > 0.5; content cut to 500 characters
\* (content is represented by its length)
ToSource(r) ==
    [title   |-> r.title,
     content |-> IF r.content < MaxContent THEN r.content ELSE MaxContent,
     score   |-> r.score]

PassesScore(r) == r.score > ScoreThreshold

FilterSources(raw) ==
    LET kept == SelectSeq(raw, PassesScore)
    IN  [i \in 1..Len(kept) |-> ToSource(kept[i])]

ParseResponse(shoe_name, response) ==
    [name    |-> shoe_name,
     summary |-> IF response.answer = Absent
                 THEN <<"No specifications found.">>
                 ELSE response.answer,
     sources |-> Take(FilterSources(response.results), MaxSources)]

-----------------------------------------------------------------------------
(* tools.py: the search provider as seen by _search_single *)

\* _build_query
BuildQuery(shoe_name) ==
    <<shoe_name, " running shoe specs heel drop stack height weight">>

\* the raw results the provider may return
RawResults ==
    { [title |-> "t40", content |-> 300, score |-> 40],
      [title |-> "t50", content |-> 300, score |-> 50],
      [title |-> "t51", content |-> 700, score |-> 51],
      [title |-> "t60", content |-> 300, score |-> 60],
      [title |-> "t90", content |-> 700, score |-> 90] }

\* the provider's response to a query when the call succeeds
ProviderResponse(query) ==
    [answer  |-> <<"answer for ", query[1]>>,
     results |-> << [title |-> "t90", content |-> 700, score |-> 90],
                    [title |-> "t40", content |-> 300, score |-> 40] >>]

-----------------------------------------------------------------------------
(* tools.py: AsyncShoeSearchTool._arun *)

StripAll(items) == [i \in 1..Len(items) |-> Strip(items[i])]

\* a faulty variant: the cap applied before the empty items are dropped
ParseNamesCapFirst(input) ==
    SelectSeq(Take(StripAll(Split(input, ",")), max_shoes), Truthy)

RECURSIVE Dedup(_)
Dedup(s) ==
    IF s = <<>> THEN <<>>
    ELSE LET front == Dedup(SubSeq(s, 1, Len(s) - 1))
             last  == s[Len(s)]
         IN  IF \E i \in 1..Len(front) : front[i] = last
             THEN front ELSE Append(front, last)

\* a faulty variant: duplicate names dropped
ParseNamesDedup(input) ==
    Take(Dedup(SelectSeq(StripAll(Split(input, ",")), Truthy)), max_shoes)

\* lines 184-185
ParseNames(input) ==
    Take(SelectSeq(StripAll(Split(input, ",")), Truthy), max_shoes)

\* the outcome of a call: nothing yet, a value returned, an exception raised
NoReturn == [kind |-> "none"]
Returned(v) == [kind |-> "value", value |-> v]
ToolException(msg) == [kind |-> "ToolException", message |-> msg]
ValueError(msg) == [kind |-> "ValueError", message |-> msg]

Pending == [kind |-> "pending"]
Failed(err) == [kind |-> "exception", error |-> err]
Found(specs) == [kind |-> "specs", specs |-> specs]

\* ShoeSpecs(name=name, summary=f"Search failed: {result}")
FailureSpecs(name, err) ==
    [name |-> name, summary |-> <<"Search failed: ", err>>, sources |-> <<>>]

\* lines 195-202: zip(names, results)
BuildShoes(ns, rs) ==
    [i \in 1..Len(ns) |->
        IF rs[i].kind = "exception"
        THEN FailureSpecs(ns[i], rs[i].error)
        ELSE rs[i].specs]

\* the items a caller may join into one input
RawItems == { <<" ">>, <<" ", "a">>, <<"b">> }

ExampleItems ==
    << <<"N","i","k","e"," ","P","e","g","a","s","u","s"," ","4","1">>,
       <<" ">>,
       <<" ","B","r","o","o","k","s"," ","G","h","o","s","t"," ","1","6">>,
       <<" ","B","r","o","o","k","s"," ","G","h","o","s","t"," ","1","6">> >>

ItemLists ==
    UNION { [1..n -> RawItems] : n \in 1..MaxItems }
        \cup { << <<>> >>, ExampleItems }

\* _arun is entered: lines 184-188, and the gather is started (lines 190-193)
ArunCall ==
    /\ ar_pc = "idle"
    /\ \E items \in ItemLists :
         LET input == Join(items, ",")
             ns    == ParseNames(input)
         IN  /\ req_items' = items
             /\ shoe_names' = input
             /\ names' = ns
             /\ IF ns = <<>>
                THEN /\ ar_pc' = "raised"
                     /\ ar_ret' = ToolException(<<"Multi-shoe search failed: ",
                                                  "No valid shoe names provided">>)
                     /\ results' = <<>>
                ELSE /\ ar_pc' = "gather"
                     /\ ar_ret' = NoReturn
                     /\ results' = [i \in 1..Len(ns) |-> Pending]
    /\ overtaken' = FALSE
    /\ UNCHANGED <<parseVars, agentVars, cliVars, chatVars>>

EarlierPending(i) == \E j \in 1..(i - 1) : results[j].kind = "pending"

\* one _search_single completes with the provider's response
SearchSingleReturns(i) ==
    /\ ar_pc = "gather"
    /\ results[i].kind = "pending"
    /\ results' = [results EXCEPT ![i] =
           Found(ParseResponse(names[i], ProviderResponse(BuildQuery(names[i]))))]
    /\ overtaken' = (overtaken \/ EarlierPending(i))
    /\ UNCHANGED <<ar_pc, req_items, shoe_names, names, ar_ret>>
    /\ UNCHANGED <<parseVars, agentVars, cliVars, chatVars>>

\* a faulty variant: gather without return_exceptions, the first error ends the call
SearchSingleRaisesAbort(i) ==
    /\ ar_pc = "gather"
    /\ results[i].kind = "pending"
    /\ results' = [results EXCEPT ![i] = Failed("transport error")]
    /\ ar_pc' = "raised"
    /\ ar_ret' = ToolException(<<"Multi-shoe search failed: ", "transport error">>)
    /\ overtaken' = (overtaken \/ EarlierPending(i))
    /\ UNCHANGED <<req_items, shoe_names, names>>
    /\ UNCHANGED <<parseVars, agentVars, cliVars, chatVars>>

\* one _search_single raises; gather(return_exceptions=True) keeps the exception
SearchSingleRaises(i) ==
    /\ ar_pc = "gather"
    /\ results[i].kind = "pending"
    /\ results' = [results EXCEPT ![i] = Failed("transport error")]
    /\ overtaken' = (overtaken \/ EarlierPending(i))
    /\ UNCHANGED <<ar_pc, req_items, shoe_names, names, ar_ret>>
    /\ UNCHANGED <<parseVars, agentVars, cliVars, chatVars>>

\* every search has completed: lines 195-209
ArunJoin ==
    /\ ar_pc = "gather"
    /\ \A i \in 1..Len(results) : results[i].kind # "pending"
    /\ ar_pc' = "returned"
    /\ ar_ret' = Returned([query |-> shoe_names,
                            shoes |-> BuildShoes(names, results)])
    /\ UNCHANGED <<req_items, shoe_names, names, results, overtaken>>
    /\ UNCHANGED <<parseVars, agentVars, cliVars, chatVars>>

ArunInit ==
    /\ ar_pc = "idle"
    /\ req_items = <<>>
    /\ shoe_names = <<>>
    /\ names = <<>>
    /\ results = <<>>
    /\ overtaken = FALSE
    /\ ar_ret = NoReturn

ParseInit ==
    /\ pr_in = [answer |-> Absent, results |-> <<>>]
    /\ pr_out = NoReturn

ArunNext ==
    \/ ArunCall
    \/ \E i \in 1..max_shoes : i <= Len(results) /\ SearchSingleReturns(i)
    \/ \E i \in 1..max_shoes : i <= Len(results) /\ SearchSingleRaises(i)
    \/ ArunJoin


-----------------------------------------------------------------------------
(* agent.py: messages and the language model as seen by the loop *)

SYSTEM_PROMPT == <<"You are a running shoe expert assistant. ...">>

SystemMessage(c) == [role |-> "system", content |-> c]
HumanMessage(c)  == [role |-> "human", content |-> c]
AIMessage(c)     == [role |-> "ai", content |-> c, tool_calls |-> <<>>]

\* the tool-call requests a model response may carry
ToolRequests ==
    { [name |-> "shoe_specs_search", args |-> [shoe_name |-> <<"a">>]],
      [name |-> "multi_shoe_search", args |-> [shoe_names |-> <<"a", ",", "b">>]],
      [name |-> "multi_shoe_search", args |-> [shoe_names |-> <<" ", ",", " ">>]],
      [name |-> "shoe_lookup",       args |-> [shoe_name |-> <<"a">>]] }

CallId(j) == "call_" \o ToString(j)

ToolCallLists ==
    UNION { { [j \in 1..k |-> [id |-> CallId(j), name |-> f[j].name, args |-> f[j].args]] :
                f \in [1..k -> ToolRequests] } : k \in 1..MaxCalls }

\* the text of a response, as the fragments it is delivered in when streamed
Contents == { <<>>, <<"Here ", "you go">> }

\* the responses the model may give: a final answer, or tool-call requests
LLMResponses ==
    { [role |-> "ai", content |-> c, tool_calls |-> <<>>] : c \in Contents }
        \cup { [role |-> "ai", content |-> <<>>, tool_calls |-> t] : t \in ToolCallLists }

\* astream: one chunk per text fragment, then one chunk per tool-call request
Chunks(r) ==
    [i \in 1..Len(r.content) |->
        [role |-> "ai", content |-> <<r.content[i]>>, tool_calls |-> <<>>]]
    \o [j \in 1..Len(r.tool_calls) |->
        [role |-> "ai", content |-> <<>>, tool_calls |-> <<r.tool_calls[j]>>]]

\* full_response + chunk
AddChunk(a, b) ==
    [role |-> "ai", content |-> a.content \o b.content,
     tool_calls |-> a.tool_calls \o b.tool_calls]

\* lines 148-151 over a whole chunk sequence; NoChunk stands for None
NoChunk == [role |-> "none", content |-> <<>>, tool_calls |-> <<>>]

RECURSIVE Accumulate(_, _)
Accumulate(acc, chunks) ==
    IF chunks = <<>> THEN acc
    ELSE Accumulate(IF acc = NoChunk THEN Head(chunks) ELSE AddChunk(acc, Head(chunks)),
                    Tail(chunks))

\* lines 145-146: the contents yielded from a chunk sequence
RECURSIVE YieldedFrom(_)
YieldedFrom(chunks) ==
    IF chunks = <<>> THEN <<>>
    ELSE (IF Truthy(Head(chunks).content) THEN <<Head(chunks).content>> ELSE <<>>)
             \o YieldedFrom(Tail(chunks))

SearchNotice == <<"\n\n Searching for shoe specs...\n\n">>

-----------------------------------------------------------------------------
(* agent.py: _execute_tool *)

RegisteredTools == <<"shoe_specs_search", "multi_shoe_search">>

HasKey(d, k) == k \in DOMAIN d

\* tool_input.get("shoe_names", tool_input.get("shoe_name", ""))
InputVal(tool_input) ==
    IF HasKey(tool_input, "shoe_names") THEN tool_input.shoe_names
    ELSE IF HasKey(tool_input, "shoe_name") THEN tool_input.shoe_name
    ELSE <<>>

\* ShoeSearchTool._run: the specs as text, or any provider failure wrapped
ShoeSearchOutcomes(shoe_name) ==
    { Returned(<<"ShoeSpecs for ", shoe_name>>),
      ToolException(<<"Failed to search for ", shoe_name>>) }

\* AsyncShoeSearchTool._arun as a whole: it raises only when no name is kept
MultiSearchOutcomes(input) ==
    IF ParseNames(input) = <<>>
    THEN { ToolException(<<"Multi-shoe search failed: ",
                           "No valid shoe names provided">>) }
    ELSE { Returned(<<"ShoeSearchResult for ", input>>) }

\* the outcomes of _execute_tool(tool_name, tool_input)
ExecuteTool(tool_name, tool_input) ==
    IF tool_name = RegisteredTools[1]
    THEN ShoeSearchOutcomes(InputVal(tool_input))
    ELSE IF tool_name = RegisteredTools[2]
    THEN MultiSearchOutcomes(InputVal(tool_input))
    ELSE { ValueError(<<"Tool ", tool_name, " not found">>) }

-----------------------------------------------------------------------------
(* agent.py: run and stream *)

\* lines 104-106 / 137-139
SeedMessages(user_input, history) ==
    <<SystemMessage(SYSTEM_PROMPT)>> \o history \o <<HumanMessage(user_input)>>

\* a faulty variant: the tool result carries the tool's name instead of the call id
ToolResultByName(tool_call, content) ==
    [role |-> "tool", content |-> content, tool_call_id |-> tool_call.name]

\* lines 122-126 / 167-171
ToolResult(tool_call, content) ==
    [role |-> "tool", content |-> content, tool_call_id |-> tool_call.id]

\* a faulty variant: a response counts as final only when it carries text
IsFinalByContent(r) == r = NoChunk \/ Truthy(r.content)

\* line 111 / line 154: `not response.tool_calls`
IsFinal(r) == r = NoChunk \/ r.tool_calls = <<>>

\* where the loop stands once tool call number `done` of r has been handled
AfterCall(r, done) == IF done < Len(r.tool_calls) THEN "tools" ELSE "invoke"

CliOff ==
    /\ cli_pc = "off"
    /\ cli_history = <<>>
    /\ cli_turns = 0

NoMessage == [content |-> <<>>, streamed |-> <<>>]

ChatOff ==
    /\ chat_pc = "off"
    /\ chat_history = <<>>
    /\ chat_msg = NoMessage
    /\ turn_status = "none"
    /\ chat_full = <<>>

AgentInit ==
    /\ ag_mode = "none"
    /\ ag_pc = "idle"
    /\ ag_input = <<>>
    /\ ag_history = <<>>
    /\ messages = <<>>
    /\ cur_response = NoChunk
    /\ tc = 1
    /\ yielded = <<>>
    /\ ag_ret = NoReturn
    /\ n_invoke = 0
    /\ n_dispatch = 0
    /\ llm_responses = <<>>

\* run(user_input, chat_history) or stream(user_input, chat_history) is entered
Enter(mode, user_input, history) ==
    /\ ag_mode' = mode
    /\ ag_pc' = "invoke"
    /\ ag_input' = user_input
    /\ ag_history' = history
    /\ messages' = SeedMessages(user_input, history)
    /\ cur_response' = NoChunk
    /\ tc' = 1
    /\ yielded' = <<>>
    /\ ag_ret' = NoReturn
    /\ n_invoke' = 0
    /\ n_dispatch' = 0
    /\ llm_responses' = <<>>

\* run, lines 109-114: one model invocation that delivers r
RunInvoke(r) ==
    /\ ag_mode = "run" /\ ag_pc = "invoke"
    /\ n_invoke < MaxInvoke
    /\ n_invoke' = n_invoke + 1
    /\ llm_responses' = Append(llm_responses, r)
    /\ cur_response' = r
    /\ tc' = 1
    /\ IF IsFinal(r)
       THEN /\ ag_pc' = "returned"
            /\ ag_ret' = Returned(r.content)
            /\ UNCHANGED messages
       ELSE /\ ag_pc' = AfterCall(r, 0)
            /\ messages' = Append(messages, r)
            /\ UNCHANGED ag_ret
    /\ UNCHANGED <<ag_mode, ag_input, ag_history, yielded, n_dispatch>>
    /\ UNCHANGED <<arunVars, parseVars, cliVars, chatVars>>

\* run, line 109: the model API fails
RunInvokeFails ==
    /\ ag_mode = "run" /\ ag_pc = "invoke"
    /\ n_invoke < MaxInvoke
    /\ n_invoke' = n_invoke + 1
    /\ ag_pc' = "raised"
    /\ ag_ret' = [kind |-> "APIError", message |-> <<"model transport failure">>]
    /\ UNCHANGED <<ag_mode, ag_input, ag_history, messages, cur_response, tc, yielded,
                   n_dispatch, llm_responses>>
    /\ UNCHANGED <<arunVars, parseVars, cliVars, chatVars>>

\* run, lines 116-126: one pass of the for loop
RunTool ==
    /\ ag_mode = "run" /\ ag_pc = "tools"
    /\ LET call == cur_response.tool_calls[tc] IN
       \E outcome \in ExecuteTool(call.name, call.args) :
         /\ n_dispatch' = n_dispatch + 1
         /\ IF outcome.kind = "value"
            THEN /\ messages' = Append(messages, ToolResult(call, outcome.value))
                 /\ tc' = tc + 1
                 /\ ag_pc' = AfterCall(cur_response, tc)
                 /\ UNCHANGED ag_ret
            ELSE /\ ag_pc' = "raised"
                 /\ ag_ret' = outcome
                 /\ UNCHANGED <<messages, tc>>
    /\ UNCHANGED <<ag_mode, ag_input, ag_history, cur_response, yielded, n_invoke,
                   llm_responses>>
    /\ UNCHANGED <<arunVars, parseVars, cliVars, chatVars>>

\* stream, lines 142-157: one model invocation whose chunks merge into r
StreamInvoke(r) ==
    /\ ag_mode = "stream" /\ ag_pc = "invoke"
    /\ n_invoke < MaxInvoke
    /\ n_invoke' = n_invoke + 1
    /\ llm_responses' = Append(llm_responses, r)
    /\ yielded' = yielded \o YieldedFrom(Chunks(r))
    /\ LET full_response == Accumulate(NoChunk, Chunks(r)) IN
         /\ cur_response' = full_response
         /\ tc' = 1
         /\ IF IsFinal(full_response)
            THEN /\ ag_pc' = "returned"
                 /\ UNCHANGED messages
            ELSE /\ ag_pc' = AfterCall(full_response, 0)
                 /\ messages' = Append(messages, full_response)
    /\ UNCHANGED <<ag_mode, ag_input, ag_history, ag_ret, n_dispatch>>
    /\ UNCHANGED <<arunVars, parseVars, cliVars, chatVars>>

\* stream, line 144: the model API fails once p chunks of r have been delivered
StreamInvokeFails(r, p) ==
    /\ ag_mode = "stream" /\ ag_pc = "invoke"
    /\ n_invoke < MaxInvoke
    /\ n_invoke' = n_invoke + 1
    /\ yielded' = yielded \o YieldedFrom(Take(Chunks(r), p))
    /\ cur_response' = Accumulate(NoChunk, Take(Chunks(r), p))
    /\ ag_pc' = "raised"
    /\ ag_ret' = [kind |-> "APIError", message |-> <<"model transport failure">>]
    /\ UNCHANGED <<ag_mode, ag_input, ag_history, messages, tc, n_dispatch,
                   llm_responses>>
    /\ UNCHANGED <<arunVars, parseVars, cliVars, chatVars>>

\* stream, lines 159-171: one pass of the for loop
StreamTool ==
    /\ ag_mode = "stream" /\ ag_pc = "tools"
    /\ yielded' = Append(yielded, SearchNotice)
    /\ LET call == cur_response.tool_calls[tc] IN
       \E outcome \in ExecuteTool(call.name, call.args) :
         /\ n_dispatch' = n_dispatch + 1
         /\ IF outcome.kind = "value"
            THEN /\ messages' = Append(messages, ToolResult(call, outcome.value))
                 /\ tc' = tc + 1
                 /\ ag_pc' = AfterCall(cur_response, tc)
                 /\ UNCHANGED ag_ret
            ELSE /\ ag_pc' = "raised"
                 /\ ag_ret' = outcome
                 /\ UNCHANGED <<messages, tc>>
    /\ UNCHANGED <<ag_mode, ag_input, ag_history, cur_response, n_invoke, llm_responses>>
    /\ UNCHANGED <<arunVars, parseVars, cliVars, chatVars>>

\* the conversations a caller may hand to the agent
UserInputs == { <<>>, <<"h", "i">> }
Histories ==
    { <<>>, <<HumanMessage(<<"e", "a", "r", "l", "i", "e", "r">>), AIMessage(<<"answer">>)>> }

\* a caller invokes run
CallRun ==
    /\ ag_pc = "idle"
    /\ \E u \in UserInputs, h \in Histories : Enter("run", u, h)
    /\ UNCHANGED <<arunVars, parseVars, cliVars, chatVars>>

\* a caller starts iterating stream
CallStream ==
    /\ ag_pc = "idle"
    /\ \E u \in UserInputs, h \in Histories : Enter("stream", u, h)
    /\ UNCHANGED <<arunVars, parseVars, cliVars, chatVars>>

AgentNext ==
    \/ CallRun
    \/ CallStream
    \/ \E r \in LLMResponses : RunInvoke(r)
    \/ RunInvokeFails
    \/ RunTool
    \/ \E r \in LLMResponses : StreamInvoke(r)
    \/ \E r \in LLMResponses : \E p \in 0..Len(Chunks(r)) : StreamInvokeFails(r, p)
    \/ StreamTool

AgentSpecInit == ArunInit /\ ParseInit /\ AgentInit /\ CliOff /\ ChatOff

SpecAgent == AgentSpecInit /\ [][AgentNext]_vars

-----------------------------------------------------------------------------
(* cli.py: interactive_mode *)

\* str.lower() on the letters the session's lines use
LowerChar(c) == IF c = "Q" THEN "q" ELSE c
Lower(s) == [i \in 1..Len(s) |-> LowerChar(s[i])]

QuitWords == { <<"q", "u", "i", "t">>, <<"e", "x", "i", "t">>, <<"q">> }

\* the lines a user may type
CliLines == { <<" ">>, <<"Q", " ">>, <<" ", "h", "i">>, <<"p", "e", "g">> }

\* lines 14-15
CliInit ==
    /\ cli_pc = "prompt"
    /\ cli_history = <<>>
    /\ cli_turns = 0

\* lines 19-33: a line is read; a question starts the stream
CliReadLine ==
    /\ cli_pc = "prompt"
    /\ \E line \in CliLines :
         LET user_input == Strip(line) IN
         IF Lower(user_input) \in QuitWords
         THEN /\ cli_pc' = "exited"
              /\ UNCHANGED <<agentVars, cli_history, cli_turns>>
         ELSE IF ~Truthy(user_input)
         THEN UNCHANGED <<agentVars, cliVars>>
         ELSE /\ cli_turns < MaxCliTurns
              /\ cli_pc' = "streaming"
              /\ Enter("stream", user_input, cli_history)
              /\ UNCHANGED <<cli_history, cli_turns>>
    /\ UNCHANGED <<arunVars, parseVars, chatVars>>

\* lines 20-22: KeyboardInterrupt or EOFError at the prompt
CliInterrupted ==
    /\ cli_pc = "prompt"
    /\ cli_pc' = "exited"
    /\ UNCHANGED <<cli_history, cli_turns>>
    /\ UNCHANGED <<arunVars, parseVars, agentVars, chatVars>>

\* a faulty variant: the turn is appended to the history, as the chat UI does
CliTurnEndAppends ==
    /\ cli_pc = "streaming" /\ ag_pc = "returned"
    /\ cli_pc' = "prompt"
    /\ cli_turns' = cli_turns + 1
    /\ cli_history' = cli_history \o <<HumanMessage(ag_input), AIMessage(yielded)>>
    /\ UNCHANGED <<arunVars, parseVars, agentVars, chatVars>>

\* lines 33-36: the stream is exhausted, the loop goes back to the prompt
CliTurnEnd ==
    /\ cli_pc = "streaming" /\ ag_pc = "returned"
    /\ cli_pc' = "prompt"
    /\ cli_turns' = cli_turns + 1
    /\ UNCHANGED cli_history
    /\ UNCHANGED <<arunVars, parseVars, agentVars, chatVars>>

\* line 33: the stream raises; nothing in interactive_mode catches it
CliCrash ==
    /\ cli_pc = "streaming" /\ ag_pc = "raised"
    /\ cli_pc' = "crashed"
    /\ UNCHANGED <<cli_history, cli_turns>>
    /\ UNCHANGED <<arunVars, parseVars, agentVars, chatVars>>

CliNext ==
    \/ CliReadLine
    \/ CliInterrupted
    \/ \E r \in LLMResponses : StreamInvoke(r)
    \/ \E r \in LLMResponses : \E p \in 0..Len(Chunks(r)) : StreamInvokeFails(r, p)
    \/ StreamTool
    \/ CliTurnEnd
    \/ CliCrash

CliSpecInit == ArunInit /\ ParseInit /\ AgentInit /\ CliInit /\ ChatOff

SpecCli == CliSpecInit /\ [][CliNext]_vars

-----------------------------------------------------------------------------
(* main.py: the chat-UI session *)

\* the message contents a user may send
ChatInputs == { <<" ">>, <<" ", "p", "e", "g", " ">> }

\* the fragment sequences agent.stream may yield to the handler
StreamRuns == { <<>>, << <<"Pegasus ">>, <<"41">> >> }

\* full_response += chunk, over the fragments received
RECURSIVE Concat(_)
Concat(frags) == IF frags = <<>> THEN <<>> ELSE Head(frags) \o Concat(Tail(frags))

\* a faulty variant: the oldest entries are kept
TruncateOldest(h) == IF Len(h) > HistoryCap THEN Take(h, HistoryCap) ELSE h

\* lines 61-62
Truncate(h) == IF Len(h) > HistoryCap THEN LastN(h, HistoryCap) ELSE h

ErrorText == <<"Error: ", "\n\nPlease try again or rephrase your question.">>

\* on_chat_start, lines 12-14
start ==
    /\ chat_pc = "off"
    /\ chat_pc' = "ready"
    /\ chat_history' = <<>>
    /\ UNCHANGED <<chat_msg, turn_status, chat_full>>
    /\ UNCHANGED <<arunVars, parseVars, agentVars, cliVars>>

\* a faulty variant: the user's message is stored before the stream is consumed
handle_message_eager(content, run, fails, p) ==
    /\ chat_pc = "ready"
    /\ LET user_input == Strip(content) IN
       IF ~Truthy(user_input)
       THEN /\ chat_msg' = [content |-> <<"Please ask about a running shoe!">>,
                            streamed |-> <<>>]
            /\ turn_status' = "blank"
            /\ UNCHANGED <<chat_history, chat_full>>
       ELSE IF fails
       THEN /\ p <= Len(run)
            /\ chat_msg' = [content |-> ErrorText, streamed |-> Take(run, p)]
            /\ turn_status' = "failed"
            /\ chat_history' = Append(chat_history, HumanMessage(user_input))
            /\ UNCHANGED chat_full
       ELSE /\ p = Len(run)
            /\ Len(chat_full) < 2 * MaxTurns
            /\ LET full_response == Concat(run)
                   turn == <<HumanMessage(user_input), AIMessage(full_response)>>
               IN  /\ chat_msg' = [content |-> full_response, streamed |-> run]
                   /\ turn_status' = "ok"
                   /\ chat_history' = Truncate(chat_history \o turn)
                   /\ chat_full' = chat_full \o turn
    /\ UNCHANGED chat_pc
    /\ UNCHANGED <<arunVars, parseVars, agentVars, cliVars>>

\* on_message, lines 36-68.  `run` is what agent.stream would yield; when `fails`
\* the turn raises after p fragments (p = Len(run): msg.update() raises)
handle_message(content, run, fails, p) ==
    /\ chat_pc = "ready"
    /\ LET user_input == Strip(content) IN
       IF ~Truthy(user_input)
       THEN /\ chat_msg' = [content |-> <<"Please ask about a running shoe!">>,
                            streamed |-> <<>>]
            /\ turn_status' = "blank"
            /\ UNCHANGED <<chat_history, chat_full>>
       ELSE IF fails
       THEN /\ p <= Len(run)
            /\ chat_msg' = [content |-> ErrorText, streamed |-> Take(run, p)]
            /\ turn_status' = "failed"
            /\ UNCHANGED <<chat_history, chat_full>>
       ELSE /\ p = Len(run)
            /\ Len(chat_full) < 2 * MaxTurns
            /\ LET full_response == Concat(run)
                   turn == <<HumanMessage(user_input), AIMessage(full_response)>>
               IN  /\ chat_msg' = [content |-> full_response, streamed |-> run]
                   /\ turn_status' = "ok"
                   /\ chat_history' = Truncate(chat_history \o turn)
                   /\ chat_full' = chat_full \o turn
    /\ UNCHANGED chat_pc
    /\ UNCHANGED <<arunVars, parseVars, agentVars, cliVars>>

ChatNext ==
    \/ start
    \/ \E content \in ChatInputs, run \in StreamRuns :
         \E fails \in BOOLEAN, p \in 0..Len(run) :
           handle_message(content, run, fails, p)

ChatSpecInit == ArunInit /\ ParseInit /\ AgentInit /\ CliOff /\ ChatOff

SpecChat == ChatSpecInit /\ [][ChatNext]_vars

-----------------------------------------------------------------------------
(* _parse_response applied to any provider response *)

ResultLists == UNION { [1..n -> RawResults] : n \in 0..max_results }

ProviderResponses ==
    { [answer |-> ans, results |-> raw] :
        ans \in {Absent, <<"an answer">>}, raw \in ResultLists }

ParseInputs ==
    /\ pr_in \in ProviderResponses
    /\ pr_out = NoReturn

ParseCall ==
    /\ pr_out = NoReturn
    /\ pr_out' = Returned(ParseResponse(<<"a">>, pr_in))
    /\ UNCHANGED pr_in
    /\ UNCHANGED <<arunVars, agentVars, cliVars, chatVars>>

ParseSpecInit == ArunInit /\ ParseInputs /\ AgentInit /\ CliOff /\ ChatOff

SpecParse == ParseSpecInit /\ [][ParseCall]_vars

ArunSpecInit == ArunInit /\ ParseInit /\ AgentInit /\ CliOff /\ ChatOff

SpecArun == ArunSpecInit /\ [][ArunNext]_vars

-----------------------------------------------------------------------------
(* The claims.  What a claim says is stated here from the request's side:    *)
(* req_items are the comma-separated items of the input, taken before the    *)
(* code splits, trims or filters anything.                                   *)

Min(a, b) == IF a < b THEN a ELSE b

NonBlank(item) == \E i \in 1..Len(item) : item[i] \notin Whitespace

NonBlankIdx(items) == { i \in 1..Len(items) : NonBlank(items[i]) }

\* the item with its leading and trailing whitespace removed
Trimmed(item) ==
    LET inner == { i \in 1..Len(item) : item[i] \notin Whitespace }
        lo == CHOOSE i \in inner : \A j \in inner : i <= j
        hi == CHOOSE i \in inner : \A j \in inner : j <= i
    IN  SubSeq(item, lo, hi)

\* the position in items of the k-th non-blank item
KthNonBlank(items, k) ==
    CHOOSE i \in NonBlankIdx(items) :
        Cardinality({ j \in NonBlankIdx(items) : j <= i }) = k

DistinctNames(items) == { Trimmed(items[i]) : i \in NonBlankIdx(items) }

\* "Nike Pegasus 41, , Brooks Ghost 16, Brooks Ghost 16"
ExampleInput ==
    <<
       "N","i","k","e"," ","P","e","g","a","s","u","s"," ",
       "4","1",","," ",","," ","B","r","o","o","k","s"," ",
       "G","h","o","s","t"," ","1","6",","," ","B","r","o",
       "o","k","s"," ","G","h","o","s","t"," ","1","6" >>

Shoes == ar_ret.value.shoes

\* the part of the working list that the loop itself appended
Appended == SubSeq(messages, Len(ag_history) + 3, Len(messages))

\* msgs is, response by response, the assistant response followed by one Tool
\* Result per request, in request order
RECURSIVE AnsweredInOrder(_, _)
AnsweredInOrder(msgs, resps) ==
    IF resps = <<>> THEN msgs = <<>>
    ELSE LET r == Head(resps)
             k == Len(r.tool_calls)
         IN  /\ k >= 1
             /\ Len(msgs) >= 1 + k
             /\ msgs[1] = r
             /\ \A j \in 1..k :
                  /\ msgs[1 + j].role = "tool"
                  /\ msgs[1 + j].tool_call_id = r.tool_calls[j].id
             /\ AnsweredInOrder(SubSeq(msgs, k + 2, Len(msgs)), Tail(resps))

\* C1: whenever run or stream is about to invoke the model again, every response
\* that carried k >= 1 tool-call requests is followed in the working list by
\* exactly k Tool Results whose tool_call_ids are the requests' ids, in order.
C1_ResultsMatchRequests ==
    (ag_pc = "invoke" /\ ag_mode \in {"run", "stream"})
        => AnsweredInOrder(Appended, llm_responses)

C1_Witness ==
    /\ ag_pc = "invoke" /\ ag_mode = "stream"
    /\ Len(llm_responses) = 1
    /\ Len(llm_responses[1].tool_calls) = 2
    /\ llm_responses[1].tool_calls[1].name # llm_responses[1].tool_calls[2].name
    /\ Len(messages) = Len(ag_history) + 5

\* a request no tool can serve: an unregistered name, or a multi_shoe_search
\* whose input holds no shoe name
Unservable(call) ==
    \/ \A i \in 1..Len(RegisteredTools) : RegisteredTools[i] # call.name
    \/ /\ call.name = "multi_shoe_search"
       /\ \A i \in 1..Len(InputVal(call.args)) :
            InputVal(call.args)[i] \in Whitespace \cup {","}

\* request j of the current response has been handed to _execute_tool
Dispatched(j) ==
    /\ ag_pc \in {"tools", "invoke", "raised"}
    /\ ag_ret.kind # "APIError"
    /\ n_dispatch > 0
    /\ j < tc \/ (j = tc /\ ag_pc = "raised")

\* C2: a request that names no registered tool, or a multi_shoe_search with no
\* valid shoe name, does not abort run or stream: a Tool Result for its call_id is
\* appended and the loop goes on.
C2_UnservableRequestIsAnswered ==
    \A j \in 1..Len(cur_response.tool_calls) :
        (Dispatched(j) /\ Unservable(cur_response.tool_calls[j]))
            => /\ ag_pc # "raised"
               /\ \E i \in 1..Len(messages) :
                    /\ messages[i].role = "tool"
                    /\ messages[i].tool_call_id = cur_response.tool_calls[j].id

\* C3: when the model's first response to run carries no tool-call request, run
\* has returned that response's text after one invocation and no dispatch.
C3_FinalAnswerAtOnce ==
    (ag_mode = "run" /\ llm_responses # <<>> /\ llm_responses[1].tool_calls = <<>>)
        => /\ ag_pc = "returned"
           /\ n_invoke = 1
           /\ n_dispatch = 0
           /\ ag_ret = Returned(llm_responses[1].content)
           /\ Len(llm_responses) = 1

C3_Witness ==
    /\ ag_mode = "run" /\ ag_pc = "returned"
    /\ ag_history # <<>>
    /\ llm_responses[1].tool_calls = <<>>
    /\ ag_ret = Returned(<<"Here ", "you go">>)

\* C4: a multi-shoe lookup over n kept names fails only for want of a name; when
\* searches raise it still returns n entries: a failure entry for each failing
\* name and, for every other name, the entry its own search produced.
C4_PartialFailureKeepsAll ==
    /\ ar_pc = "raised" => ~(\E i \in 1..Len(req_items) : NonBlank(req_items[i]))
    /\ ar_pc = "returned" =>
         /\ Len(Shoes) = Len(names)
         /\ \A i \in 1..Len(names) :
              IF results[i].kind = "exception"
              THEN /\ Shoes[i].name = names[i]
                   /\ Shoes[i].summary[1] = "Search failed: "
              ELSE Shoes[i] =
                     ParseResponse(names[i], ProviderResponse(BuildQuery(names[i])))

C4_Witness ==
    /\ ar_pc = "returned"
    /\ Len(names) = 3
    /\ results[2].kind = "exception"
    /\ results[1].kind = "specs" /\ results[3].kind = "specs"

\* C5: the kept names are the first 5 non-blank items of the input, trimmed, in
\* input order, and entry i of the result carries kept name i whatever the order
\* in which the searches completed.
C5_KeptNamesInInputOrder ==
    /\ ar_pc # "idle" =>
         /\ Len(names) = Min(5, Cardinality(NonBlankIdx(req_items)))
         /\ \A k \in 1..Len(names) :
              names[k] = Trimmed(req_items[KthNonBlank(req_items, k)])
    /\ ar_pc = "returned" =>
         /\ Len(Shoes) = Len(names)
         /\ \A i \in 1..Len(names) : Shoes[i].name = names[i]

C5_Witness ==
    /\ ar_pc = "returned"
    /\ overtaken
    /\ Cardinality(NonBlankIdx(req_items)) > 5
    /\ Len(Shoes) = 5

\* C6 as stated: the result has one entry per distinct non-blank name (at most
\* 5), and the example input yields exactly 2 shoes.
C6_OnePerDistinctName ==
    ar_pc = "returned" =>
        /\ Len(Shoes) = Min(5, Cardinality(DistinctNames(req_items)))
        /\ shoe_names = ExampleInput => Len(Shoes) = 2

\* C6 as amended: the result has one entry per non-blank item, duplicates
\* counted each time (at most 5), and the example input yields exactly 3 shoes.
C6_OnePerNonBlankItem ==
    ar_pc = "returned" =>
        /\ Len(Shoes) = Min(5, Cardinality(NonBlankIdx(req_items)))
        /\ shoe_names = ExampleInput => Len(Shoes) = 3

C6_Witness ==
    /\ ar_pc = "returned"
    /\ shoe_names = ExampleInput
    /\ Len(Shoes) = 3
    /\ Shoes[2].name = Shoes[3].name

\* C7: sources holds exactly the results scoring above 0.5, cut to the 3 highest
\* scores and listed highest first.
C7_TopThreeByScore ==
    pr_out.kind = "value" =>
        LET src  == pr_out.value.sources
            raw  == pr_in.results
            pass == { j \in 1..Len(raw) : raw[j].score > 50 }
        IN  /\ Len(src) = Min(3, Cardinality(pass))
            /\ \A i \in 1..Len(src) :
                 /\ src[i].score > 50
                 /\ \E j \in pass :
                      raw[j].title = src[i].title /\ raw[j].score = src[i].score
            /\ \A i, j \in 1..Len(src) : i < j => src[i].score >= src[j].score
            /\ \A v \in { raw[j].score : j \in pass } :
                 Cardinality({ i \in 1..Len(src) : src[i].score >= v })
                     = Min(3, Cardinality({ j \in pass : raw[j].score >= v }))

\* the stored history is made of whole turns that succeeded
WholeTurns ==
    /\ Len(chat_history) % 2 = 0
    /\ \A i \in 1..Len(chat_history) :
         i % 2 = 1 =>
            /\ chat_history[i].role = "human"
            /\ chat_history[i + 1].role = "ai"
            /\ \E k \in 1..Len(chat_full) :
                 /\ k % 2 = 1
                 /\ chat_full[k] = chat_history[i]
                 /\ chat_full[k + 1] = chat_history[i + 1]

\* C8: the stored history always consists of whole successful turns (a Human
\* message followed by its Assistant message), and a turn that fails, wherever
\* the stream raises, leaves the stored history exactly as it was.
C8_FailedTurnLeavesHistory ==
    /\ []WholeTurns
    /\ [][turn_status' = "failed" => chat_history' = chat_history]_vars

C8_Witness ==
    /\ turn_status = "failed"
    /\ chat_msg.streamed # <<>>
    /\ chat_history # <<>>

\* C9: the stored history has at most 20 entries and is the most recent (up to
\* 20) entries of everything the successful turns appended, in order.
C9_LastTwentyKept ==
    /\ Len(chat_history) = Min(20, Len(chat_full))
    /\ \A i \in 1..Len(chat_history) :
         chat_history[i] = chat_full[Len(chat_full) - Len(chat_history) + i]

C9_Witness ==
    /\ Len(chat_full) > 20
    /\ Len(chat_history) = 20
    /\ turn_status = "ok"

\* C10: in the line-mode session the history handed to stream is empty on every
\* turn, so each conversation starts from the system prompt and the current user
\* message alone, and holds nothing of earlier turns afterwards.
C10_CliHistoryStaysEmpty ==
    /\ cli_history = <<>>
    /\ cli_pc = "streaming" =>
         /\ ag_history = <<>>
         /\ SubSeq(messages, 1, 2) =
              <<SystemMessage(SYSTEM_PROMPT), HumanMessage(ag_input)>>
         /\ n_invoke = 0 => Len(messages) = 2
         /\ \A i \in 3..Len(messages) :
              \/ messages[i].role = "tool"
              \/ \E k \in 1..Len(llm_responses) : llm_responses[k] = messages[i]

C10_Witness ==
    /\ cli_pc = "streaming"
    /\ cli_turns >= 1
    /\ ag_pc = "invoke" /\ n_invoke = 0
    /\ Len(messages) = 2

====
